---- MODULE Spec2Model ----
(***************************************************************************)
(* Concierge: the conciergeAgentFlow callable (functions/src/index.ts, the *)
(* interrupt/resume revision) and the chat components that drive it.       *)
(*                                                                         *)
(* Optional values (undefined / null in the source) are sequences of       *)
(* length at most one: <<>> is absent, <<v>> is present.  Text that the    *)
(* source tests for truthiness is a string, "" being the falsy value.      *)
(* Tool names and typed text are sequences of tokens, so that endsWith and *)
(* trim are computed and not assumed.                                      *)
(***************************************************************************)
EXTENDS Integers, Sequences, FiniteSets, TLC

VARIABLES
    \* ---- conciergeAgentFlow, one invocation (functions/src/index.ts)
    pc,           \* "idle" | "resumeGen" | "stdGen" | "returned"
    req,          \* the request payload {input, messages, interruptResponse}
    calls,        \* the ai.generate calls issued by this invocation, in order
    genResponse,  \* what ai.generate resolved to (the flow's local `response`)
    result,       \* what the invocation returned or threw
    \* ---- ChatComponent with interrupts (chat.component.ts, interrupt revision)
    messages,         \* displayed message list
    isLoading,
    pendingInterrupt, \* InterruptState | null
    inFlight,         \* the subscription's closure: originalQuery of the request
    lastSend,         \* the latest call of sendMessage, as its guard saw it
    \* ---- ChatComponent with conversation history (chat.component.ts:63-208)
    hMessages,
    conversationHistory,
    hLoading,
    hRequest,         \* the {query, historySnapshot} handed to AiService
    hLastSend,        \* the latest call of sendMessage, as its guard saw it
    \* ---- a capability (ai.defineTool), one invocation
    tPc,          \* "idle" | "generating" | "returned"
    tCall,        \* which capability, of which revision, with which input
    tGenerate,    \* the ai.generate call the capability issued, and its response
    tResult       \* what the capability returned or threw

flowVars == <<pc, req, calls, genResponse, result>>
chatVars == <<messages, isLoading, pendingInterrupt, inFlight, lastSend>>
histVars == <<hMessages, conversationHistory, hLoading, hRequest, hLastSend>>
toolVars == <<tPc, tCall, tGenerate, tResult>>
vars == <<pc, req, calls, genResponse, result, messages, isLoading, pendingInterrupt, inFlight,
          lastSend, hMessages, conversationHistory, hLoading, hRequest, hLastSend,
          tPc, tCall, tGenerate, tResult>>

\* ------------------------------------------------------------------ bounds
MaxMsgs == 2
MaxTurns == 3

\* ------------------------------------------------------------ optional values
Absent == <<>>
Some(v) == <<v>>
IsPresent(o) == Len(o) > 0
Get(o) == o[1]

\* ------------------------------------------------------------------ names
dayTripAgentFlow == <<"dayTrip", "AgentFlow">>
foodieAgentFlow == <<"foodie", "AgentFlow">>
weekendGuideAgentFlow == <<"weekendGuide", "AgentFlow">>
findAndNavigateAgentFlow == <<"findAndNavigate", "AgentFlow">>

\* const tools = [...]: the registry, in source order
tools == <<dayTripAgentFlow, foodieAgentFlow, weekendGuideAgentFlow,
           findAndNavigateAgentFlow>>

\* String.prototype.endsWith, on token sequences
EndsWith(s, suffix) ==
    /\ Len(suffix) <= Len(s)
    /\ SubSeq(s, Len(s) - Len(suffix) + 1, Len(s)) = suffix

\* ------------------------------------------------------------------ messages
\* A content part: a text part, or a toolRequest part whose metadata may mark
\* it as an interrupt.
TextPart(t) == [kind |-> "text", name |-> <<>>, input |-> t, interrupt |-> FALSE]
ToolRequestPart(n, i, m) ==
    [kind |-> "toolRequest", name |-> n, input |-> i, interrupt |-> m]
Msg(r, c) == [role |-> r, content |-> c]

\* Array.prototype.find: the first element satisfying the test, or undefined;
\* hits are the indices of s whose element satisfies the test
Find(s, hits) ==
    IF hits = {} THEN Absent
    ELSE Some(s[CHOOSE i \in hits : \A j \in hits : i <= j])

\* [...a].reverse()
Reverse(s) == [i \in 1..Len(s) |-> s[Len(s) + 1 - i]]

\* a || b on strings: the first operand unless it is falsy ("")
OrElse(a, b) == IF a # "" THEN a ELSE b

\* ------------------------------------------------- conciergeAgentFlow: lookup
\* [...prevMessages].reverse().find(m => m.role === 'model')
LastModelMessage(prevMessages) ==
    LET reversed == Reverse(prevMessages)
    IN  Find(reversed, {i \in 1..Len(reversed) : reversed[i].role = "model"})

\* lastModelMessage?.content?.find(p => p.toolRequest && p.toolRequest.name ===
\*   interruptResponse.toolName && p.metadata && p.metadata.interrupt)
InterruptPart(prevMessages, toolName) ==
    LET lastModelMessage == LastModelMessage(prevMessages)
    IN  IF ~IsPresent(lastModelMessage) THEN Absent
        ELSE LET content == Get(lastModelMessage).content
             IN  Find(content, {i \in 1..Len(content) :
                                   /\ content[i].kind = "toolRequest"
                                   /\ content[i].name = toolName
                                   /\ content[i].interrupt})

\* tools.find(t => t.__action.name.endsWith(interruptResponse.toolName))
MatchingTool(toolName) ==
    Find(tools, {i \in 1..Len(tools) : EndsWith(tools[i], toolName)})

\* if (interruptResponse && prevMessages?.length)
HasResumeInput(r) ==
    /\ IsPresent(r.interruptResponse)
    /\ IsPresent(r.messages)
    /\ Len(Get(r.messages)) > 0

\* The three nested ifs that guard the resume generation
TakesResumePath(r) ==
    /\ HasResumeInput(r)
    /\ IsPresent(InterruptPart(Get(r.messages), Get(r.interruptResponse).toolName))
    /\ IsPresent(MatchingTool(Get(r.interruptResponse).toolName))

\* ------------------------------------------- conciergeAgentFlow: ai.generate
\* Mutant: the resume call is issued without the supplied messages
ResumeGenerate_DropsMessages(r) ==
    LET ir == Get(r.interruptResponse)
    IN  [mode     |-> "resume",
         prompt   |-> r.input,
         messages |-> Absent,
         tools    |-> tools,
         respond  |-> Some([tool     |-> Get(MatchingTool(ir.toolName)),
                            part     |-> Get(InterruptPart(Get(r.messages), ir.toolName)),
                            response |-> ir.response])]

\* ai.generate({prompt, messages: prevMessages, tools,
\*              resume: {respond: matchingTool.respond(interruptPart, response)}})
ResumeGenerate(r) ==
    LET ir == Get(r.interruptResponse)
    IN  [mode     |-> "resume",
         prompt   |-> r.input,
         messages |-> r.messages,
         tools    |-> tools,
         respond  |-> Some([tool     |-> Get(MatchingTool(ir.toolName)),
                            part     |-> Get(InterruptPart(Get(r.messages), ir.toolName)),
                            response |-> ir.response])]

\* ai.generate({prompt, tools})
StandardGenerate(r) ==
    [mode     |-> "standard",
     prompt   |-> r.input,
     messages |-> Absent,
     tools    |-> tools,
     respond  |-> Absent]

\* -------------------------------------------- conciergeAgentFlow: the return
Returned(data) == [status |-> "ok", data |-> Some(data), error |-> ""]
Thrown(e) == [status |-> "error", data |-> Absent, error |-> e]
NoResult == [status |-> "none", data |-> Absent, error |-> ""]

\* {toolName: interrupt.toolRequest.name, toolInput: interrupt.toolRequest.input,
\*  metadata: interrupt.metadata?.interrupt}
InterruptData(part) ==
    [toolName |-> part.name, toolInput |-> part.input, metadata |-> part.interrupt]

\* Mutant: the last interrupt of the reply is surfaced
InterruptReturn_Last(response) ==
    Returned([text      |-> "",
              interrupt |-> Some(InterruptData(
                                response.interrupts[Len(response.interrupts)])),
              messages  |-> response.messages])

\* if (response.interrupts?.length) return {interrupt: ..., messages}
InterruptReturn(response) ==
    Returned([text      |-> "",
              interrupt |-> Some(InterruptData(response.interrupts[1])),
              messages  |-> response.messages])

\* Mutant: the resume path returns without response.messages
ResumeReturn_NoMessages(response) ==
    IF Len(response.interrupts) > 0
    THEN Returned([text      |-> "",
                   interrupt |-> Some(InterruptData(response.interrupts[1])),
                   messages  |-> Absent])
    ELSE Returned([text      |-> OrElse(response.text, response.output),
                   interrupt |-> Absent,
                   messages  |-> Absent])

\* resume path: return {text: result || undefined, messages}
ResumeReturn(response) ==
    IF Len(response.interrupts) > 0 THEN InterruptReturn(response)
    ELSE Returned([text      |-> OrElse(response.text, response.output),
                   interrupt |-> Absent,
                   messages  |-> response.messages])

\* Mutant: text is looked at before the interrupts
StandardReturn_TextFirst(response) ==
    IF OrElse(response.text, response.output) # ""
    THEN Returned([text      |-> OrElse(response.text, response.output),
                   interrupt |-> Absent,
                   messages  |-> response.messages])
    ELSE IF Len(response.interrupts) > 0
         THEN Returned([text      |-> "",
                        interrupt |-> Some(InterruptData(response.interrupts[1])),
                        messages  |-> response.messages])
         ELSE Thrown("No output from AI")

\* standard path: if (!result) throw new Error('No output from AI')
StandardReturn(response) ==
    IF Len(response.interrupts) > 0 THEN InterruptReturn(response)
    ELSE IF OrElse(response.text, response.output) = ""
         THEN Thrown("No output from AI")
         ELSE Returned([text      |-> OrElse(response.text, response.output),
                        interrupt |-> Absent,
                        messages  |-> response.messages])

\* ---------------------------------------------------------------- test data
\* What a user can leave in the input box: token sequences, " " being blank.
Typed == {<<>>, <<" ">>, <<"plan">>, <<" ", "lisbon", " ">>}

\* String.prototype.trim
RECURSIVE TrimStart(_)
TrimStart(s) ==
    IF s # <<>> /\ Head(s) = " " THEN TrimStart(Tail(s)) ELSE s
Trim(s) == Reverse(TrimStart(Reverse(TrimStart(s))))

\* Names a caller can put in interruptResponse.toolName or in a toolRequest
RequestNames == {dayTripAgentFlow, foodieAgentFlow, <<"AgentFlow">>, <<"unknownTool">>}

\* Contents a supplied message can have
Contents ==
    { <<TextPart("t")>>,
      <<ToolRequestPart(dayTripAgentFlow, "i1", TRUE)>>,
      <<ToolRequestPart(dayTripAgentFlow, "i1", FALSE)>>,
      <<ToolRequestPart(foodieAgentFlow, "i1", TRUE)>>,
      <<ToolRequestPart(dayTripAgentFlow, "i1", TRUE),
        ToolRequestPart(dayTripAgentFlow, "i2", TRUE)>>,
      <<ToolRequestPart(foodieAgentFlow, "i1", TRUE),
        ToolRequestPart(dayTripAgentFlow, "i2", TRUE)>>,
      <<ToolRequestPart(<<"AgentFlow">>, "i1", TRUE)>>,
      <<ToolRequestPart(<<"unknownTool">>, "i1", TRUE)>> }

SuppliedMessages == {Msg(r, c) : r \in {"user", "model"}, c \in Contents}

SeqsUpTo(S, n) == UNION {[1..k -> S] : k \in 0..n}

\* Payloads accepted by ConciergeInputSchema
Requests ==
    [input : {<<"plan">>},
     messages : {Absent} \cup {Some(h) : h \in SeqsUpTo(SuppliedMessages, MaxMsgs)},
     interruptResponse :
        {Absent} \cup {Some([toolName |-> n, response |-> <<"lisbon">>]) :
                          n \in RequestNames}]

\* What ai.generate can resolve to.  response.interrupts are the parts of the
\* reply's model message that are marked as interrupts; response.messages ends
\* with that model message.
Reply(parts, text, output) ==
    [interrupts |-> parts,
     text       |-> text,
     output     |-> output,
     messages   |-> Some(<<Msg("user", <<TextPart("t")>>),
                           Msg("model", IF parts = <<>> THEN <<TextPart(text)>>
                                        ELSE parts)>>)]

Replies ==
    { Reply(<<>>, "answer", ""),
      Reply(<<>>, "", "structured"),
      Reply(<<>>, "", ""),
      Reply(<<ToolRequestPart(dayTripAgentFlow, "i1", TRUE)>>, "", ""),
      Reply(<<ToolRequestPart(foodieAgentFlow, "i1", TRUE),
              ToolRequestPart(dayTripAgentFlow, "i2", TRUE)>>, "", ""),
      Reply(<<ToolRequestPart(foodieAgentFlow, "i2", TRUE)>>, "partial", "") }

\* ------------------------------------------------ conciergeAgentFlow: actions
\* Mutant: prevMessages.reverse() without the copy reverses the caller's array
MessagesAfterLookup_ReversedInPlace(prevMessages) ==
    IF IsPresent(prevMessages) THEN Some(Reverse(Get(prevMessages)))
    ELSE prevMessages

\* prevMessages once the lookup has run: [...prevMessages] copies the array
\* before reverse(), and find() only reads
MessagesAfterLookup(prevMessages) == prevMessages

\* The body of the flow up to its await of ai.generate
ConciergeBegin ==
    /\ pc = "called"
    /\ IF TakesResumePath(req)
       THEN /\ calls' = Append(calls, ResumeGenerate(req))
            /\ pc' = "resumeGen"
       ELSE /\ calls' = Append(calls, StandardGenerate(req))
            /\ pc' = "stdGen"
    /\ req' = [req EXCEPT !.messages = MessagesAfterLookup(req.messages)]
    /\ UNCHANGED <<genResponse, result, chatVars, histVars, toolVars>>

\* ai.generate resolves; the flow runs to its return or throw
ConciergeFinish(generated) ==
    /\ pc \in {"resumeGen", "stdGen"}
    /\ genResponse' = Some(generated)
    /\ result' = IF pc = "resumeGen" THEN ResumeReturn(generated)
                 ELSE StandardReturn(generated)
    /\ pc' = "returned"
    /\ UNCHANGED <<req, calls, chatVars, histVars, toolVars>>

\* Mutant: a failed resume generation falls back to a standard generation
ConciergeGenerateThrows_FallsBack ==
    /\ pc \in {"resumeGen", "stdGen"}
    /\ IF pc = "resumeGen"
       THEN /\ calls' = Append(calls, StandardGenerate(req))
            /\ pc' = "stdGen"
            /\ result' = result
       ELSE /\ calls' = calls
            /\ pc' = "returned"
            /\ result' = Thrown("generate failed")
    /\ UNCHANGED <<req, genResponse, chatVars, histVars, toolVars>>

\* ai.generate rejects (transport, quota, a tool that throws): the flow rethrows
ConciergeGenerateThrows ==
    /\ pc \in {"resumeGen", "stdGen"}
    /\ result' = Thrown("generate failed")
    /\ pc' = "returned"
    /\ UNCHANGED <<req, calls, genResponse, chatVars, histVars, toolVars>>

\* A caller invokes the callable with a payload of its own
DirectCall ==
    /\ pc = "idle"
    /\ \E r \in Requests : req' = r
    /\ calls' = <<>>
    /\ genResponse' = Absent
    /\ result' = NoResult
    /\ pc' = "called"
    /\ UNCHANGED <<chatVars, histVars, toolVars>>

\* The caller has consumed the result
DirectDone ==
    /\ pc = "returned"
    /\ ~isLoading
    /\ pc' = "idle"
    /\ req' = [input |-> <<>>, messages |-> Absent, interruptResponse |-> Absent]
    /\ calls' = <<>>
    /\ genResponse' = Absent
    /\ result' = NoResult
    /\ UNCHANGED <<chatVars, histVars, toolVars>>

\* ------------------------------------------------- capabilities (defineTool)
\* The four capabilities have the same body; they differ in name and prompt.
\* Two revisions: "text" reads response.text (interrupt revision), "output"
\* asks for a string output and reads response.output (functions/src/index.ts).
Revisions == {"text", "output"}
ToolInputs == {"", "lisbon"}

ToolPrompt(name) ==
    CASE name = dayTripAgentFlow -> "DAY_TRIP_AGENT_PROMPT"
      [] name = foodieAgentFlow -> "FOODIE_AGENT_PROMPT"
      [] name = weekendGuideAgentFlow -> "WEEKEND_GUIDE_AGENT_PROMPT"
      [] name = findAndNavigateAgentFlow -> "TRANSPORT_AGENT_PROMPT"

\* ai.generate({prompt: `${PROMPT}\n\nUser query: ${input}`, ...})
ToolGenerate(call) ==
    [prompt  |-> <<ToolPrompt(call.name), "User query: ", call.input>>,
     options |-> IF call.revision = "text" THEN "googleSearchRetrieval"
                 ELSE "output: string"]

\* What the capability's ai.generate can resolve to: text and output may be
\* missing (null or undefined), empty, or filled
ToolReplies ==
    [text   : {Absent, Some(""), Some("answer")},
     output : {Absent, Some(""), Some("answer")}]

\* JavaScript truthiness of an optional string
Truthy(o) == IsPresent(o) /\ Get(o) # ""

\* The field of the response the capability reads
ToolField(revision, response) ==
    IF revision = "text" THEN response.text ELSE response.output

\* Mutant: the result is returned without the test
AgentFlowLogic_ReturnsUnchecked(revision, response) ==
    LET field == ToolField(revision, response)
    IN  Returned(IF IsPresent(field) THEN Get(field) ELSE "")

\* if (!response.text) throw new Error('No output from AI'); return response.text
AgentFlowLogic(revision, response) ==
    IF ~Truthy(ToolField(revision, response))
    THEN Thrown("No output from AI")
    ELSE Returned(Get(ToolField(revision, response)))

\* the adapter, or a caller of the capability's callable, invokes it
ToolInvoke ==
    /\ tPc = "idle"
    /\ \E i \in 1..Len(tools), input \in ToolInputs, revision \in Revisions :
          LET call == [name |-> tools[i], input |-> input, revision |-> revision]
          IN  /\ tCall' = Some(call)
              /\ tGenerate' = Some([call     |-> ToolGenerate(call),
                                    response |-> Absent])
    /\ tResult' = NoResult
    /\ tPc' = "generating"
    /\ UNCHANGED <<flowVars, chatVars, histVars>>

\* the capability's ai.generate resolves
ToolGenerateResolves(response) ==
    /\ tPc = "generating"
    /\ tResult' = AgentFlowLogic(Get(tCall).revision, response)
    /\ tGenerate' = Some([Get(tGenerate) EXCEPT !.response = Some(response)])
    /\ tPc' = "returned"
    /\ UNCHANGED <<tCall, flowVars, chatVars, histVars>>

\* the capability's ai.generate rejects: the rejection propagates
ToolGenerateThrows ==
    /\ tPc = "generating"
    /\ tResult' = Thrown("generate failed")
    /\ tPc' = "returned"
    /\ UNCHANGED <<tCall, tGenerate, flowVars, chatVars, histVars>>

\* the caller has consumed the result
ToolDone ==
    /\ tPc = "returned"
    /\ tPc' = "idle"
    /\ tCall' = Absent
    /\ tGenerate' = Absent
    /\ tResult' = NoResult
    /\ UNCHANGED <<flowVars, chatVars, histVars>>

\* ------------------------------------------- ChatComponent (interrupt revision)
Null == Absent

\* Displayed messages; timestamp and formattedText carry no decision and are
\* left out.  An AI text is one token.
UserMessage(query) == [text |-> query, sender |-> "user", isInterrupt |-> FALSE]
AiMessage(text) == [text |-> <<text>>, sender |-> "ai", isInterrupt |-> FALSE]
interruptText ==
    "I need a bit more information to help you. Could you please provide additional details?"
InterruptMessage == [text |-> <<interruptText>>, sender |-> "ai", isInterrupt |-> TRUE]
errorText == "Sorry, something went wrong. Please try again."

UserTurns(msgs) == Cardinality({i \in 1..Len(msgs) : msgs[i].sender = "user"})

\* AiService.sendMessage(query, messages?, interruptResponse?): the payload it
\* hands to the conciergeAgentFlow callable
AiServiceSendMessage(query, msgs, interruptResponse) ==
    [input |-> query, messages |-> msgs, interruptResponse |-> interruptResponse]

\* Mutant: the message typed while an interrupt is pending goes out as a query
ResumeRequest_AsFreshQuery(interrupt, query) ==
    AiServiceSendMessage(query, Absent, Absent)

\* The request sendMessage builds when an interrupt is pending
ResumeRequest(interrupt, query) ==
    AiServiceSendMessage(interrupt.originalQuery, Some(interrupt.messages),
                         Some([toolName |-> interrupt.interrupt.toolName,
                               response |-> query]))

\* The request sendMessage builds otherwise
StandardRequest(query) == AiServiceSendMessage(query, Absent, Absent)

\* Mutant: sendMessage leaves the interrupt in place
PendingAfterSend_Keeps(pending) == pending

\* this.pendingInterrupt after sendMessage has read it
PendingAfterSend(pending) == Null

\* Mutant: the callback of a resume is subscribed with the message just typed
SubscribedQuery_Typed(interrupt, query) == query

\* next: (response) => this.handleResponse(response.data, interrupt.originalQuery)
SubscribedQuery(interrupt, query) == interrupt.originalQuery

\* A call of sendMessage: queryControl.value and isLoading() as the guard reads
\* them; tick tells two calls in a row with the same readings apart
SendCall(v, loading, last) ==
    Some([typed      |-> v,
          wasLoading |-> loading,
          tick       |-> IF IsPresent(last) THEN ~Get(last).tick ELSE FALSE])

\* Mutant: the guard tests the text only
SendRejected_IgnoresLoading(query, loading) == query = <<>>

\* Mutant: the guard tests the loading flag only
SendRejected_IgnoresBlank(query, loading) == loading

\* if (!query || this.isLoading()) return
SendRejected(query, loading) == query = <<>> \/ loading

sendMessage(v) ==
    LET query == Trim(v)
        interrupt == pendingInterrupt
    IN  /\ lastSend' = SendCall(v, isLoading, lastSend)
        /\ IF SendRejected(query, isLoading)
           THEN UNCHANGED <<flowVars, messages, isLoading, pendingInterrupt,
                            inFlight, histVars, toolVars>>
           ELSE /\ UserTurns(messages) < MaxTurns
                /\ messages' = Append(messages, UserMessage(query))
                /\ isLoading' = TRUE
                /\ IF IsPresent(interrupt)
                   THEN /\ pendingInterrupt' = PendingAfterSend(pendingInterrupt)
                        /\ req' = ResumeRequest(Get(interrupt), query)
                        /\ inFlight' = Some(SubscribedQuery(Get(interrupt), query))
                   ELSE /\ pendingInterrupt' = pendingInterrupt
                        /\ req' = StandardRequest(query)
                        /\ inFlight' = Some(query)
                /\ calls' = <<>>
                /\ genResponse' = Absent
                /\ result' = NoResult
                /\ pc' = "called"
                /\ UNCHANGED <<histVars, toolVars>>

\* Mutant: the stored state loses the partial history of the response
HandleResponsePending_DropsHistory(response, originalQuery, pending) ==
    IF IsPresent(response.interrupt)
    THEN Some([interrupt     |-> Get(response.interrupt),
               messages      |-> <<>>,
               originalQuery |-> originalQuery])
    ELSE pending

\* Mutant: a Suspended response is displayed but not stored
HandleResponsePending_NotStored(response, originalQuery, pending) == pending

\* handleResponse: the interrupt state it leaves
HandleResponsePending(response, originalQuery, pending) ==
    IF IsPresent(response.interrupt)
    THEN Some([interrupt     |-> Get(response.interrupt),
               messages      |-> IF IsPresent(response.messages)
                                 THEN Get(response.messages) ELSE <<>>,
               originalQuery |-> originalQuery])
    ELSE pending

\* handleResponse: the displayed list it leaves
HandleResponseMessages(response, msgs) ==
    IF IsPresent(response.interrupt) THEN Append(msgs, InterruptMessage)
    ELSE IF response.text # "" THEN Append(msgs, AiMessage(response.text))
    ELSE msgs

\* Mutant: handleError puts the interrupt of the failed resume back for a retry
HandleErrorPending_KeepsForRetry(pending) ==
    IF IsPresent(req.interruptResponse)
    THEN Some([interrupt     |-> [toolName  |-> Get(req.interruptResponse).toolName,
                                  toolInput |-> "i1",
                                  metadata  |-> TRUE],
               messages      |-> Get(req.messages),
               originalQuery |-> req.input])
    ELSE pending

\* handleError: the interrupt state it leaves
HandleErrorPending(pending) == Null

\* Mutant: the loading flag is cleared when the response arrives and the
\* response is handled in a later task
SubscribeNext_ClearsLoadingFirst ==
    /\ pc = "returned"
    /\ result.status = "ok"
    /\ IF isLoading
       THEN /\ isLoading' = FALSE
            /\ UNCHANGED <<messages, pendingInterrupt, inFlight, pc>>
       ELSE /\ IsPresent(inFlight)
            /\ pendingInterrupt' =
                  HandleResponsePending(Get(result.data), Get(inFlight), pendingInterrupt)
            /\ messages' = HandleResponseMessages(Get(result.data), messages)
            /\ inFlight' = Absent
            /\ pc' = "idle"
            /\ UNCHANGED isLoading
    /\ UNCHANGED <<req, calls, genResponse, result, lastSend, histVars, toolVars>>

\* next: handleResponse(response.data, originalQuery), then finalizeRequest
SubscribeNext ==
    /\ isLoading
    /\ pc = "returned"
    /\ result.status = "ok"
    /\ pendingInterrupt' =
          HandleResponsePending(Get(result.data), Get(inFlight), pendingInterrupt)
    /\ messages' = HandleResponseMessages(Get(result.data), messages)
    /\ isLoading' = FALSE
    /\ inFlight' = Absent
    /\ pc' = "idle"
    /\ UNCHANGED <<req, calls, genResponse, result, lastSend, histVars, toolVars>>

\* Mutant: the error path does not reach finalizeRequest
HandleErrorStep_NoFinalize ==
    /\ pendingInterrupt' = HandleErrorPending(pendingInterrupt)
    /\ messages' = Append(messages, AiMessage(errorText))
    /\ isLoading' = isLoading
    /\ inFlight' = Absent
    /\ pc' = "idle"

\* error: handleError(err), then finalizeRequest
HandleErrorStep ==
    /\ pendingInterrupt' = HandleErrorPending(pendingInterrupt)
    /\ messages' = Append(messages, AiMessage(errorText))
    /\ isLoading' = FALSE
    /\ inFlight' = Absent
    /\ pc' = "idle"

\* the flow threw
SubscribeError ==
    /\ isLoading
    /\ pc = "returned"
    /\ result.status = "error"
    /\ HandleErrorStep
    /\ UNCHANGED <<req, calls, genResponse, result, lastSend, histVars, toolVars>>

\* the callable rejects without the flow having run (network, CORS, quota)
CallableRejects ==
    /\ isLoading
    /\ pc = "called"
    /\ HandleErrorStep
    /\ result' = Thrown("unavailable")
    /\ UNCHANGED <<req, calls, genResponse, lastSend, histVars, toolVars>>

\* ---------------------------------- ChatComponent (conversation-history revision)
UserTurn(query) == [role |-> "user", content |-> query]
ModelTurn(data) == [role |-> "model", content |-> <<data>>]

HistoryReplies == {"answer", "which city?"}

\* Mutant: the snapshot is taken after the user turn was appended
HistorySnapshot_AfterAppend(history, query) == Append(history, UserTurn(query))

\* const historySnapshot = this.conversationHistory(), taken before the update
HistorySnapshot(history, query) == history

hSendMessage(v) ==
    LET query == Trim(v)
    IN  /\ hLastSend' = SendCall(v, hLoading, hLastSend)
        /\ IF SendRejected(query, hLoading)
           THEN UNCHANGED <<hMessages, conversationHistory, hLoading, hRequest,
                            flowVars, chatVars, toolVars>>
           ELSE /\ UserTurns(hMessages) < MaxTurns
                /\ hMessages' = Append(hMessages, UserMessage(query))
                /\ conversationHistory' = Append(conversationHistory, UserTurn(query))
                /\ hLoading' = TRUE
                /\ hRequest' = Some([query   |-> query,
                                     history |-> HistorySnapshot(conversationHistory, query)])
                /\ UNCHANGED <<flowVars, chatVars, toolVars>>

\* Mutant: the reply replaces the last entry of the history
hSubscribeNext_OverwritesLast(data) ==
    /\ hLoading
    /\ hMessages' = Append(hMessages, AiMessage(data))
    /\ conversationHistory' =
          [conversationHistory EXCEPT ![Len(conversationHistory)] = ModelTurn(data)]
    /\ hLoading' = FALSE
    /\ UNCHANGED <<hRequest, hLastSend, flowVars, chatVars, toolVars>>

hSubscribeNext(data) ==
    /\ hLoading
    /\ hMessages' = Append(hMessages, AiMessage(data))
    /\ conversationHistory' = Append(conversationHistory, ModelTurn(data))
    /\ hLoading' = FALSE
    /\ UNCHANGED <<hRequest, hLastSend, flowVars, chatVars, toolVars>>

\* Mutant: the apology is recorded as a model turn
hSubscribeError_RecordsApology ==
    /\ hLoading
    /\ hMessages' = Append(hMessages, AiMessage(errorText))
    /\ conversationHistory' = Append(conversationHistory, ModelTurn(errorText))
    /\ hLoading' = FALSE
    /\ UNCHANGED <<hRequest, hLastSend, flowVars, chatVars, toolVars>>

\* error callback, then finalize
hSubscribeError ==
    /\ hLoading
    /\ hMessages' = Append(hMessages, AiMessage(errorText))
    /\ hLoading' = FALSE
    /\ UNCHANGED <<conversationHistory, hRequest, hLastSend, flowVars, chatVars, toolVars>>

\* ------------------------------------------------------------ specifications
Init ==
    /\ pc = "idle"
    /\ req = StandardRequest(<<>>)
    /\ calls = <<>>
    /\ genResponse = Absent
    /\ result = NoResult
    /\ messages = <<>>
    /\ isLoading = FALSE
    /\ pendingInterrupt = Null
    /\ inFlight = Absent
    /\ hMessages = <<>>
    /\ conversationHistory = <<>>
    /\ hLoading = FALSE
    /\ hRequest = Absent
    /\ lastSend = Absent
    /\ hLastSend = Absent
    /\ tPc = "idle"
    /\ tCall = Absent
    /\ tGenerate = Absent
    /\ tResult = NoResult

\* The chat session driving the flow
Next ==
    \/ \E v \in Typed : sendMessage(v)
    \/ ConciergeBegin
    \/ \E generated \in Replies : ConciergeFinish(generated)
    \/ ConciergeGenerateThrows
    \/ SubscribeNext
    \/ SubscribeError
    \/ CallableRejects

Spec == Init /\ [][Next]_vars

\* The flow called with payloads of the caller's choosing
FlowNext ==
    \/ DirectCall
    \/ ConciergeBegin
    \/ \E generated \in Replies : ConciergeFinish(generated)
    \/ ConciergeGenerateThrows
    \/ DirectDone

FlowSpec == Init /\ [][FlowNext]_vars

\* The chat session that keeps a conversation history
HistNext ==
    \/ \E v \in Typed : hSendMessage(v)
    \/ \E data \in HistoryReplies : hSubscribeNext(data)
    \/ hSubscribeError

HistSpec == Init /\ [][HistNext]_vars

\* The client in either of its revisions: the component that has been used is
\* the deployed one
ClientNext ==
    \/ (hLastSend = Absent /\ Next)
    \/ (lastSend = Absent /\ HistNext)

ClientSpec == Init /\ [][ClientNext]_vars

\* Every backend request eventually settles and its callback is delivered
Settles ==
    /\ WF_vars(ConciergeBegin)
    /\ WF_vars((\E generated \in Replies : ConciergeFinish(generated))
                  \/ ConciergeGenerateThrows)
    /\ WF_vars(SubscribeNext)
    /\ WF_vars(SubscribeError)
    /\ WF_vars((\E data \in HistoryReplies : hSubscribeNext(data)) \/ hSubscribeError)

ClientLiveSpec == ClientSpec /\ Settles

\* A capability invoked on its own
ToolNext ==
    \/ ToolInvoke
    \/ \E response \in ToolReplies : ToolGenerateResolves(response)
    \/ ToolGenerateThrows
    \/ ToolDone

ToolSpec == Init /\ [][ToolNext]_vars

\* ------------------------------------------------------------------ claims
RegisteredNames == {tools[i] : i \in 1..Len(tools)}

IsSuspensionOf(p, toolName) ==
    p.kind = "toolRequest" /\ p.name = toolName /\ p.interrupt

\* Some model-authored message of the request's messages holds a suspended
\* request for the resumed name
SuspendedAnywhere(r) ==
    /\ IsPresent(r.interruptResponse)
    /\ IsPresent(r.messages)
    /\ \E i \in 1..Len(Get(r.messages)) :
          /\ Get(r.messages)[i].role = "model"
          /\ \E k \in 1..Len(Get(r.messages)[i].content) :
                IsSuspensionOf(Get(r.messages)[i].content[k],
                               Get(r.interruptResponse).toolName)

\* The last model-authored message of the request's messages holds it
SuspendedInLastModelMessage(r) ==
    /\ IsPresent(r.interruptResponse)
    /\ IsPresent(r.messages)
    /\ \E i \in 1..Len(Get(r.messages)) :
          /\ Get(r.messages)[i].role = "model"
          /\ \A j \in (i + 1)..Len(Get(r.messages)) : Get(r.messages)[j].role # "model"
          /\ \E k \in 1..Len(Get(r.messages)[i].content) :
                IsSuspensionOf(Get(r.messages)[i].content[k],
                               Get(r.interruptResponse).toolName)

NoOutput(generated) ==
    generated.text = "" /\ generated.output = "" /\ generated.interrupts = <<>>

\* C1: a call with a resume request whose toolName matches no model-authored,
\* interrupt-marked tool request of the supplied messages fails, and issues no
\* plain generation.
C1_UnmatchedResumeFails ==
    (pc = "returned" /\ IsPresent(req.interruptResponse) /\ ~SuspendedAnywhere(req))
        => /\ result.status = "error"
           /\ \A i \in 1..Len(calls) : calls[i].mode # "standard"

\* C2: every successful return of the flow has exactly one of text and
\* interrupt populated.
C2_ExactlyOneOfTextAndInterrupt ==
    (pc = "returned" /\ result.status = "ok")
        => ((Get(result.data).text # "") # IsPresent(Get(result.data).interrupt))

C10_NoOutputFails ==
    (pc = "returned" /\ IsPresent(genResponse) /\ NoOutput(Get(genResponse)))
        => /\ result = Thrown("No output from AI")
           /\ Len(calls) = 1

\* A send was accepted in this step
SendAccepted == ~isLoading /\ isLoading'

\* The request that was answered last was a resume request
LastWasResume == IsPresent(req.interruptResponse)

\* The last request settled with a successful response that is still the
\* latest thing the session has seen
SettledOk == ~isLoading /\ pc = "idle" /\ result.status = "ok"

\* C4: at most one pending interrupt is stored; after a resume request has
\* itself come back Suspended, the stored interrupt and partial history are
\* exactly those of the new response.
C4_SingleInterruptReplaced ==
    /\ Len(pendingInterrupt) <= 1
    /\ (SettledOk /\ LastWasResume /\ IsPresent(Get(result.data).interrupt))
          => /\ IsPresent(pendingInterrupt)
             /\ Get(pendingInterrupt).interrupt = Get(Get(result.data).interrupt)
             /\ Some(Get(pendingInterrupt).messages) = Get(result.data).messages

C4_Witness ==
    /\ SettledOk
    /\ LastWasResume
    /\ Get(req.interruptResponse).toolName = dayTripAgentFlow
    /\ IsPresent(pendingInterrupt)
    /\ Get(pendingInterrupt).interrupt.toolName = foodieAgentFlow
    /\ Get(pendingInterrupt).messages # Get(req.messages)

\* C5: the history handed to the backend on a turn is the conversation history
\* as it was before that turn's user turn was appended: it is a strict prefix
\* of the conversation history, the entry right after it is that user turn, and
\* that user turn is the latest user turn of the conversation history.
C5_HistoryExcludesCurrentTurn ==
    IsPresent(hRequest) =>
        LET sent == Get(hRequest).history
            n == Len(Get(hRequest).history)
        IN  /\ n < Len(conversationHistory)
            /\ SubSeq(conversationHistory, 1, n) = sent
            /\ conversationHistory[n + 1] = UserTurn(Get(hRequest).query)
            /\ \A j \in (n + 2)..Len(conversationHistory) :
                  conversationHistory[j].role = "model"

C5_Witness ==
    /\ IsPresent(hRequest)
    /\ ~hLoading
    /\ Len(Get(hRequest).history) >= 2
    /\ \E i \in 1..Len(Get(hRequest).history) :
          Get(hRequest).history[i] = UserTurn(Get(hRequest).query)
    /\ conversationHistory[Len(conversationHistory)].role = "model"

\* C6: a message accepted while an interrupt is pending goes out as a resume
\* request carrying the stored capability name, the message just typed as the
\* response, and the stored partial history.
C6_PendingRoutesAsResume ==
    [][(SendAccepted /\ IsPresent(pendingInterrupt)) =>
          /\ IsPresent(req'.interruptResponse)
          /\ Get(req'.interruptResponse).toolName =
                Get(pendingInterrupt).interrupt.toolName
          /\ Get(req'.interruptResponse).response = messages'[Len(messages')].text
          /\ req'.messages = Some(Get(pendingInterrupt).messages)]_vars

C6_Witness ==
    /\ isLoading
    /\ pc = "called"
    /\ LastWasResume
    /\ Get(req.interruptResponse).toolName = foodieAgentFlow
    /\ Get(req.interruptResponse).response = <<"lisbon">>
    /\ messages[Len(messages)] = UserMessage(<<"lisbon">>)

\* C7: after a resume request has ended in an error no interrupt is pending,
\* and the message accepted next goes out without a resume request.
C7_FailedResumeClearsInterrupt ==
    /\ []((~isLoading /\ LastWasResume /\ result.status = "error")
             => pendingInterrupt = Null)
    /\ [][(SendAccepted /\ LastWasResume /\ result.status = "error")
             => req'.interruptResponse = Absent]_vars

C7_Witness ==
    /\ isLoading
    /\ ~LastWasResume
    /\ Len(messages) >= 5
    /\ messages[2] = InterruptMessage
    /\ messages[4] = AiMessage(errorText)

\* C8: a stored interrupt is consumed by the first message accepted after it
\* was stored, which goes out as a resume request, and is discarded there: no
\* interrupt is stored while a request is outstanding, and an interrupt is only
\* ever stored by the handling of a Suspended response.
C8_InterruptConsumedOnce ==
    /\ [](isLoading => pendingInterrupt = Null)
    /\ [][(SendAccepted /\ IsPresent(pendingInterrupt))
             => (pendingInterrupt' = Null /\ IsPresent(req'.interruptResponse))]_vars
    /\ [][(pendingInterrupt = Null /\ pendingInterrupt' # Null)
             => /\ isLoading /\ ~isLoading'
                /\ result.status = "ok"
                /\ IsPresent(Get(result.data).interrupt)]_vars

C8_Witness ==
    /\ isLoading
    /\ ~LastWasResume
    /\ pendingInterrupt = Null
    /\ Len(messages) >= 5
    /\ messages[2] = InterruptMessage
    /\ messages[4] = AiMessage("answer")

\* C9: once a request has completed successfully, a result without an interrupt
\* leaves no pending interrupt and a result with an interrupt leaves a pending
\* interrupt holding that interrupt and that partial history, for a fresh query
\* and for a resume alike.
C9_ResultDeterminesInterruptState ==
    SettledOk =>
        IF IsPresent(Get(result.data).interrupt)
        THEN /\ IsPresent(pendingInterrupt)
             /\ Get(pendingInterrupt).interrupt.toolName =
                   Get(Get(result.data).interrupt).toolName
             /\ Some(Get(pendingInterrupt).messages) = Get(result.data).messages
        ELSE pendingInterrupt = Null

C9_Witness ==
    /\ SettledOk
    /\ LastWasResume
    /\ Get(result.data).text = "answer"
    /\ pendingInterrupt = Null
    /\ messages[2] = InterruptMessage

\* The flow has issued its ai.generate call
Generating == pc \in {"resumeGen", "stdGen", "returned"} /\ Len(calls) >= 1

\* Positions <<message, part>> of the model-authored, interrupt-marked requests
\* for the resumed name in the request's messages
SuspensionPositions(r) ==
    UNION {{<<i, k>> : k \in {j \in 1..Len(Get(r.messages)[i].content) :
                                 /\ Get(r.messages)[i].role = "model"
                                 /\ IsSuspensionOf(Get(r.messages)[i].content[j],
                                                   Get(r.interruptResponse).toolName)}} :
           i \in 1..Len(Get(r.messages))}

\* The one met first when scanning from the last entry backward
LatestSuspension(r) ==
    LET at == CHOOSE a \in SuspensionPositions(r) :
                 \A b \in SuspensionPositions(r) :
                    b[1] < a[1] \/ (b[1] = a[1] /\ b[2] <= a[2])
    IN  Get(r.messages)[at[1]].content[at[2]]

\* C11: when a resume is carried out, the suspended invocation it answers is
\* the most recent qualifying record of the partial history, scanning from the
\* last entry backward (also within one model message).
C11_LatestSuspensionSelected ==
    (Generating /\ calls[1].mode = "resume")
        => Get(calls[1].respond).part = LatestSuspension(req)

\* C12: a resume request for a registered capability is carried out whenever
\* any model-authored message of the partial history holds a suspended request
\* for it, whichever message that is.
C12_MatchAnywhereInHistory ==
    (/\ Generating
     /\ SuspendedAnywhere(req)
     /\ Get(req.interruptResponse).toolName \in RegisteredNames)
        => calls[1].mode = "resume"

\* C13: when the reply carries suspensions, the flow returns the interrupt of
\* the first one in the reply's order: its capability name and its input.
C13_FirstSuspensionSurfaced ==
    (pc = "returned" /\ IsPresent(genResponse)
        /\ Len(Get(genResponse).interrupts) > 0)
        => /\ result.status = "ok"
           /\ IsPresent(Get(result.data).interrupt)
           /\ Get(Get(result.data).interrupt).toolName =
                 Get(genResponse).interrupts[1].name
           /\ Get(Get(result.data).interrupt).toolInput =
                 Get(genResponse).interrupts[1].input

C13_Witness ==
    /\ pc = "returned"
    /\ IsPresent(genResponse)
    /\ Len(Get(genResponse).interrupts) = 2
    /\ Get(genResponse).interrupts[1].name # Get(genResponse).interrupts[2].name
    /\ calls[1].mode = "resume"
    /\ Get(Get(result.data).interrupt).toolName = foodieAgentFlow

\* C14: a reply that carries a suspension is returned as Suspended, without
\* text, also when the reply carries text; a response with text is returned
\* only for a reply without suspension.
C14_SuspensionWinsOverText ==
    (pc = "returned" /\ IsPresent(genResponse)) =>
        /\ Len(Get(genResponse).interrupts) > 0
              => /\ result.status = "ok"
                 /\ IsPresent(Get(result.data).interrupt)
                 /\ Get(result.data).text = ""
        /\ (result.status = "ok" /\ Get(result.data).text # "")
              => Get(genResponse).interrupts = <<>>

C14_Witness ==
    /\ pc = "returned"
    /\ IsPresent(genResponse)
    /\ Get(genResponse).text = "partial"
    /\ Len(Get(genResponse).interrupts) = 1
    /\ calls[1].mode = "standard"
    /\ IsPresent(Get(result.data).interrupt)

\* C15: every successful response of the flow carries the messages of the
\* ai.generate response of that call, with an interrupt and without; the
\* partial history the client stores with an interrupt is that sequence.
C15_ResponsesCarryPartialHistory ==
    /\ (pc = "returned" /\ result.status = "ok")
          => /\ IsPresent(Get(result.data).messages)
             /\ Get(result.data).messages = Get(genResponse).messages
    /\ (SettledOk /\ IsPresent(Get(result.data).interrupt))
          => /\ IsPresent(pendingInterrupt)
             /\ Some(Get(pendingInterrupt).messages) = Get(genResponse).messages

C15_Witness ==
    /\ SettledOk
    /\ ~LastWasResume
    /\ IsPresent(pendingInterrupt)
    /\ Len(Get(pendingInterrupt).messages) = 2
    /\ Some(Get(pendingInterrupt).messages) = Get(genResponse).messages

\* C16: a failed turn displays the apology and leaves the conversation history
\* as it was when the request was sent (the snapshot plus the user turn); the
\* apology text is never part of the history, nor of a history that is sent.
C16_FailureLeavesHistory ==
    /\ []((/\ ~hLoading
           /\ Len(hMessages) > 0
           /\ hMessages[Len(hMessages)] = AiMessage(errorText))
             => conversationHistory =
                   Append(Get(hRequest).history, UserTurn(Get(hRequest).query)))
    /\ [](/\ \A i \in 1..Len(conversationHistory) :
                conversationHistory[i].content # <<errorText>>
          /\ IsPresent(hRequest) =>
                \A i \in 1..Len(Get(hRequest).history) :
                   Get(hRequest).history[i].content # <<errorText>>)
    /\ [][(hLoading /\ ~hLoading' /\ conversationHistory' = conversationHistory)
             => hMessages' = Append(hMessages, AiMessage(errorText))]_vars

C16_Witness ==
    /\ hLoading
    /\ Len(hMessages) = 3
    /\ hMessages[2] = AiMessage(errorText)
    /\ Get(hRequest).history = <<UserTurn(<<"plan">>)>>
    /\ Len(conversationHistory) = 2

\* C17: while a call of the flow runs, and when it has returned or thrown, the
\* messages of the request are the sequence the caller supplied.
C17_SuppliedMessagesUnchanged ==
    [][(pc # "idle" /\ pc' # "idle") => req'.messages = req.messages]_vars

C17_Witness ==
    /\ pc = "returned"
    /\ result.status = "error"
    /\ calls[1].mode = "resume"
    /\ Len(Get(req.messages)) = 2
    /\ Get(req.messages)[1] # Get(req.messages)[2]

\* C19: a call of the flow issues exactly one ai.generate call; when that call
\* fails the flow fails without another call; the client sends a request only
\* for a newly accepted user message, never from the handling of a failure.
C19_NoRetryInsideATurn ==
    /\ [](pc \in {"resumeGen", "stdGen", "returned"} => Len(calls) = 1)
    /\ []((pc = "returned" /\ ~IsPresent(genResponse)) => result.status = "error")
    /\ [][(pc # "called" /\ pc' = "called")
             => /\ SendAccepted
                /\ Len(messages') = Len(messages) + 1
                /\ messages'[Len(messages')].sender = "user"]_vars
    /\ [][(isLoading /\ ~isLoading') => (pc' = "idle" /\ req' = req)]_vars

C19_Witness ==
    /\ ~isLoading
    /\ pc = "idle"
    /\ result = Thrown("generate failed")
    /\ Len(calls) = 1
    /\ calls[1].mode = "resume"
    /\ messages[Len(messages)] = AiMessage(errorText)

\* The messages an ai.generate call or a request carries, [] when it has none
MessagesOf(o) == IF IsPresent(o) THEN Get(o) ELSE <<>>

\* C20: on a call without a resume request, the adapter is handed the supplied
\* messages in their order, then the current utterance, with all four tools.
C20_HistoryThenUtterance ==
    (Generating /\ ~IsPresent(req.interruptResponse))
        => /\ MessagesOf(calls[1].messages) = MessagesOf(req.messages)
           /\ calls[1].prompt = req.input
           /\ calls[1].tools = tools

\* C22: a capability whose generation yields no usable output (the field it
\* reads is missing or empty) fails with the no-output error, and a capability
\* never returns an empty result; this holds for each of the four capabilities
\* in both revisions.
C22_CapabilityNoOutputFails ==
    (tPc = "returned" /\ IsPresent(Get(tGenerate).response))
        => LET response == Get(Get(tGenerate).response)
               field == IF Get(tCall).revision = "text" THEN response.text
                        ELSE response.output
           IN  /\ (field = Absent \/ field = Some(""))
                     => tResult = Thrown("No output from AI")
               /\ tResult.status = "ok"
                     => (tResult.data # Some("") /\ tResult.data = field)

C22_Witness ==
    /\ tPc = "returned"
    /\ Get(tCall).name = findAndNavigateAgentFlow
    /\ Get(tCall).revision = "text"
    /\ Get(tGenerate).response = Some([text |-> Some(""), output |-> Some("answer")])
    /\ tResult = Thrown("No output from AI")

\* The displayed list, the session flags and the request state of the
\* interrupt revision, and of the conversation-history revision
chatEffects == <<messages, isLoading, pendingInterrupt, inFlight, pc, req, calls,
                 genResponse, result>>
histEffects == <<hMessages, conversationHistory, hLoading, hRequest>>

\* C23: no request carries an utterance that is empty after trimming, and a
\* call of sendMessage whose input is empty or blank changes nothing: no
\* displayed message, no history entry, no request, loading flag and pending
\* interrupt as before.
C23_BlankSendChangesNothing ==
    /\ [](pc # "idle" =>
             /\ Trim(req.input) # <<>>
             /\ IsPresent(req.interruptResponse)
                   => Trim(Get(req.interruptResponse).response) # <<>>)
    /\ [](IsPresent(hRequest) => Trim(Get(hRequest).query) # <<>>)
    /\ [][(lastSend' # lastSend /\ Trim(Get(lastSend').typed) = <<>>)
             => UNCHANGED chatEffects]_vars
    /\ [][(hLastSend' # hLastSend /\ Trim(Get(hLastSend').typed) = <<>>)
             => UNCHANGED histEffects]_vars

C23_Witness ==
    /\ IsPresent(lastSend)
    /\ Get(lastSend).typed = <<" ">>
    /\ ~Get(lastSend).wasLoading
    /\ ~isLoading
    /\ Len(messages) = 2
    /\ pendingInterrupt # Null

\* C24: the loading flag is set exactly while a request is outstanding, a
\* request is only issued while none is outstanding, and a call of sendMessage
\* made while the loading flag is set changes nothing.
C24_OneRequestInFlight ==
    /\ [](isLoading <=> pc # "idle")
    /\ [](isLoading <=> IsPresent(inFlight))
    /\ [][(pc' = "called" /\ (pc # "called" \/ req' # req))
             => (~isLoading /\ pc = "idle" /\ isLoading')]_vars
    /\ [][hRequest' # hRequest => (~hLoading /\ hLoading')]_vars
    /\ [][(lastSend' # lastSend /\ Get(lastSend').wasLoading)
             => UNCHANGED chatEffects]_vars
    /\ [][(hLastSend' # hLastSend /\ Get(hLastSend').wasLoading)
             => UNCHANGED histEffects]_vars

C24_Witness ==
    /\ IsPresent(lastSend)
    /\ Get(lastSend).wasLoading
    /\ Get(lastSend).typed = <<"plan">>
    /\ isLoading
    /\ pc = "resumeGen"
    /\ Len(messages) = 3

\* C25: when every request settles, the loading flag is cleared again after
\* every accepted send, in both revisions, whichever way the request ends.
C25_LoadingEventuallyCleared ==
    /\ isLoading ~> ~isLoading
    /\ hLoading ~> ~hLoading

C25_Witness ==
    /\ ~isLoading
    /\ Len(messages) = 4
    /\ messages[2] = AiMessage(errorText)
    /\ messages[4] = AiMessage("answer")

\* C26: when the loading flag is cleared the response has been handled: a
\* Suspended response has been stored and displayed, a reply has been appended
\* to the conversation history; the message accepted next after a Suspended
\* response goes out as a resume request, and the history sent next ends with
\* the reply.
C26_HandledBeforeLoadingCleared ==
    /\ [][(isLoading /\ ~isLoading' /\ result.status = "ok"
                     /\ IsPresent(Get(result.data).interrupt))
             => /\ IsPresent(pendingInterrupt')
                /\ messages' = Append(messages, InterruptMessage)]_vars
    /\ [][(SendAccepted /\ result.status = "ok"
                        /\ IsPresent(Get(result.data).interrupt))
             => IsPresent(req'.interruptResponse)]_vars
    /\ [][(hLoading /\ ~hLoading'
                    /\ hMessages'[Len(hMessages')] # AiMessage(errorText))
             => conversationHistory' =
                   Append(conversationHistory,
                          ModelTurn(hMessages'[Len(hMessages')].text[1]))]_vars
    /\ [][(~hLoading /\ hLoading' /\ Len(hMessages) > 0
                     /\ hMessages[Len(hMessages)] # AiMessage(errorText))
             => LET sent == Get(hRequest').history
                IN  /\ Len(sent) > 0
                    /\ sent[Len(sent)] =
                          ModelTurn(hMessages[Len(hMessages)].text[1])]_vars

C26_Witness ==
    /\ isLoading
    /\ pc = "called"
    /\ Len(messages) = 3
    /\ messages[2] = InterruptMessage
    /\ IsPresent(req.interruptResponse)
    /\ Get(req.interruptResponse).toolName = dayTripAgentFlow
    /\ ~Get(lastSend).wasLoading

\* C27: once a request has settled, every user message of the displayed list is
\* followed by exactly one AI message (reply, request for details or apology)
\* before the next user message.
C27_OneAiMessagePerUserMessage ==
    ~isLoading =>
        /\ Len(messages) % 2 = 0
        /\ \A i \in 1..Len(messages) :
              messages[i].sender = IF i % 2 = 1 THEN "user" ELSE "ai"

\* The turns a displayed list stands for: user messages and replies in their
\* order, the apologies left out
RECURSIVE HistoryOf(_)
HistoryOf(msgs) ==
    IF msgs = <<>> THEN <<>>
    ELSE IF Head(msgs).sender = "user"
         THEN <<UserTurn(Head(msgs).text)>> \o HistoryOf(Tail(msgs))
         ELSE IF Head(msgs) = AiMessage(errorText)
              THEN HistoryOf(Tail(msgs))
              ELSE <<ModelTurn(Head(msgs).text[1])>> \o HistoryOf(Tail(msgs))

\* C28: the conversation history changes only by one entry appended at its end:
\* a user turn by an accepted send, a model turn by a reply; it starts with a
\* user turn, every model turn directly follows a user turn, and it is the
\* displayed list without the apologies, so two user turns in a row stand
\* exactly where a turn failed.
C28_HistoryAppendOnly ==
    /\ [][conversationHistory' # conversationHistory
             => /\ Len(conversationHistory') = Len(conversationHistory) + 1
                /\ SubSeq(conversationHistory', 1, Len(conversationHistory))
                      = conversationHistory
                /\ conversationHistory'[Len(conversationHistory')].role =
                      IF hLoading THEN "model" ELSE "user"
                /\ hLoading' = ~hLoading]_vars
    /\ [][(~hLoading /\ hLoading')
             => Len(conversationHistory') = Len(conversationHistory) + 1]_vars
    /\ [](\A i \in 1..Len(conversationHistory) :
             conversationHistory[i].role = "model"
                => (i > 1 /\ conversationHistory[i - 1].role = "user"))
    /\ [](conversationHistory = HistoryOf(hMessages))

C28_Witness ==
    /\ ~hLoading
    /\ conversationHistory =
          <<UserTurn(<<"plan">>), UserTurn(<<"lisbon">>), ModelTurn("answer")>>
    /\ hMessages[2] = AiMessage(errorText)

\* The user message that started the chain of suspensions a displayed list
\* ends with (the list ends with a user message and the request for details)
RECURSIVE ChainStart(_)
ChainStart(msgs) ==
    IF Len(msgs) >= 4 /\ msgs[Len(msgs) - 2] = InterruptMessage
    THEN ChainStart(SubSeq(msgs, 1, Len(msgs) - 2))
    ELSE msgs[Len(msgs) - 1].text

\* C29: through a chain of consecutive suspensions the stored original query is
\* the utterance that started the chain; each resume request of the chain
\* sends it as input and the message just typed as the response, and a
\* suspension returned by a resume is stored with the same original query.
C29_OriginalQueryKept ==
    /\ [](IsPresent(pendingInterrupt)
             => /\ messages[Len(messages)] = InterruptMessage
                /\ Get(pendingInterrupt).originalQuery = ChainStart(messages))
    /\ []((isLoading /\ IsPresent(req.interruptResponse))
             => /\ req.input = ChainStart(SubSeq(messages, 1, Len(messages) - 1))
                /\ Get(req.interruptResponse).response = messages[Len(messages)].text)
    /\ [][(isLoading /\ ~isLoading' /\ IsPresent(req.interruptResponse)
                     /\ IsPresent(pendingInterrupt'))
             => Get(pendingInterrupt').originalQuery = req.input]_vars

C29_Witness ==
    /\ ~isLoading
    /\ IsPresent(pendingInterrupt)
    /\ Len(messages) = 4
    /\ messages[2] = InterruptMessage
    /\ messages[4] = InterruptMessage
    /\ messages[3].text = <<"lisbon">>
    /\ Get(pendingInterrupt).originalQuery = <<"plan">>

\* C30: a resume generation answers through the registered capability whose
\* name is the resumed name; when no capability of that name is registered no
\* resume generation is issued.
C30_ResumeThroughNamedCapability ==
    (Generating /\ calls[1].mode = "resume")
        => /\ Get(req.interruptResponse).toolName \in RegisteredNames
           /\ Get(calls[1].respond).tool = Get(req.interruptResponse).toolName

====
